---- MODULE Spec2Model ----
(***************************************************************************)
(* Trickle node of userland/examples/trickle/main.c.                       *)
(*                                                                         *)
(* The process is one C stack.  main runs first and then the process sits  *)
(* in the yield loop of _start (crt1.c).  Every synchronous driver call    *)
(* (delay_ms, rng_sync, ieee802154_send) waits in a yield loop, as         *)
(* radio_send does (radio.c), and while the process waits there the kernel *)
(* may run any subscribed callback on top of the waiting call.  A state of *)
(* the model is therefore always a state in which the process is inside    *)
(* yield; `stack` lists the calls that wait, the innermost last.  Output    *)
(* through printf is taken to return without running a callback.           *)
(*                                                                         *)
(* Variables that the C code does not have (ev, heard, txCount, started and *)
(* the stale flag of a timer) record history; no action reads them in its  *)
(* guard or in the value it gives to a program variable.                   *)
(***************************************************************************)
EXTENDS Integers, Sequences, FiniteSets, Bags, TLC

\* ---- program constants (trickle/main.c) --------------------------------
I_MIN == 1000
I_MAX == 8
K == 2
SRC_ADDR == 5377
IEEE_BROADCAST == 65535

\* ---- program constants (radio_rx_slip_tx/main.c) -----------------------
END == 192
ESC == 219
ESC_END == 220
ESC_ESC == 221

\* ---- bounds of the model -----------------------------------------------
\* longest packet given to slip_send_packet
MaxPacketLen == 3
\* nodes of the network
NumNodes == 2
\* most interval-end timers (pending or being re-armed) at one time
MaxThreads == 2
\* most calls waiting in yield at one time
MaxDepth == 2
\* largest payload byte a neighbour sends
MaxVal == 1
\* cap of the consistency counter
MaxHeard == 2

\* values the random source may put into the 32-bit word t: the least, and one
\* whose remainder by every i/2 is the greatest (i/2 - 1)
RandSet == {0, 127999}

Min(a, b) == IF a < b THEN a ELSE b
Max(a, b) == IF a < b THEN b ELSE a

VARIABLES
  stack,         \* calls waiting in yield, innermost last
  subscribed,    \* receive_frame is subscribed to the radio
  global_state,  \* "NULL" or "state"
  i, t, c, val,  \* trickle_state fields
  I_MAX_VAL,     \* static uint32_t I_MAX_VAL
  START_TEST,    \* static bool START_TEST
  packet,        \* first word of the transmit buffer
  timers,        \* bag of pending timer pairs, see Armed
  crashed,       \* the process faulted
  started,       \* history: the first interval_start has returned
  heard,         \* history: consistent receptions since c was last cleared
  txCount,       \* history: transmissions since timers were last armed
  ev,            \* history: what the last step did
  codec,         \* a sender, a receiver and the frame between them, see CodecIdle
  slip,          \* a call of slip_send_packet, see InitSlip
  net            \* a network of nodes, see NetBoot

\* the node
node == <<stack, subscribed, global_state, i, t, c, val, I_MAX_VAL, START_TEST,
          packet, timers, crashed, started, heard, txCount, ev>>

\* what the specifications of the node leave alone
others == <<codec, slip, net>>

\* value of a variable in the specifications that do not use it
Off == "off"

vars == <<node, others>>

prog == <<subscribed, global_state, i, t, c, val, I_MAX_VAL, START_TEST, packet>>

\* ---- frames --------------------------------------------------------------
Frame(at, ret) == [at |-> at, ret |-> ret]

Top == stack[Len(stack)]

Pop == SubSeq(stack, 1, Len(stack) - 1)

\* the process is inside yield: in the loop of _start or in a waiting call
InYield == ~crashed

\* a callback may be entered only while there is room for its own wait
Room == Len(stack) < MaxDepth

CallbackInProgress == \E k \in 1..Len(stack) : stack[k].ret # "main"

RngWaiting == \E k \in 1..Len(stack) : stack[k].at = "rng"

NumRng == Cardinality({k \in 1..Len(stack) : stack[k].at = "rng"})

\* ---- history record ------------------------------------------------------
\* kind: the step taken; stale: the timer that fired was armed by an interval
\* that a later interval_start has superseded; tx: transmit was called;
\* core: receive_frame read the trickle state; rv: the value it decoded;
\* oldval, oldi: val and i before the step; inprog: a callback was waiting in
\* yield when the step began; wait: the delay the timer that fired was armed
\* with; fail: the driver call returned an error; restart: interval_start
\* was called
NoEv == [kind |-> "none", stale |-> FALSE, tx |-> FALSE, oldval |-> 0, rv |-> 0,
         core |-> FALSE, oldi |-> 0, inprog |-> FALSE, wait |-> 0,
         fail |-> FALSE, restart |-> FALSE]

Ev(kind) == [NoEv EXCEPT !.kind = kind, !.oldval = val, !.oldi = i,
                         !.inprog = CallbackInProgress]

\* ---- pure functions of the C code ----------------------------------------
\* The fields i, t and c are uint32_t.  No value of the model comes near 2^32
\* (i <= I_MIN * 2^I_MAX, t < i, c <= MaxHeard), so the arithmetic below never
\* wraps and is written without the reduction modulo 2^32.
\* variant: the loop body runs once
DoubleOnce(x, n) == 2 * x

RECURSIVE DoubleTimes(_, _)
\* the loop  for (i = 0; i < I_MAX; i++) I_MAX_VAL *= 2;
DoubleTimes(x, n) == IF n = 0 THEN x ELSE DoubleTimes(2 * x, n - 1)

\* variant: the half interval is not added to the remainder
WaitPointNoHalf(r, iv) == r % (iv \div 2)

\* variant: the remainder is taken by the whole interval
WaitPointWholeInterval(r, iv) == (r % iv) + (iv \div 2)

\* state->t = (t % (state->i/2)) + state->i/2;
WaitPoint(r, iv) == (r % (iv \div 2)) + (iv \div 2)

\* variant: the doubled interval is not cut at I_MAX_VAL
NextIntervalNoClamp(iv, max) == 2 * iv

\* variant: the interval grows by I_MIN instead of doubling
NextIntervalLinear(iv, max) ==
  LET d == iv + I_MIN IN IF d > max THEN max ELSE d

\* state->i = 2*state->i; if (state->i > I_MAX_VAL) state->i = I_MAX_VAL;
NextInterval(iv, max) ==
  LET d == 2 * iv IN IF d > max THEN max ELSE d

\* variant: the comparison with K is inclusive
ShouldTransmitInclusive(cnt) == cnt <= K

\* if (state->c < K)
ShouldTransmit(cnt) == cnt < K

\* variant: the counter is set instead of incremented
IncrementedSet(cnt) == 1

\* state->c += 1;
Incremented(cnt) == cnt + 1

\* variant: every differing value is adopted
AdoptAny(v, r) == r

\* if (state->val < val) state->val = val;
Adopt(v, r) == IF v < r THEN r ELSE v

\* variant: the interval is restarted at I_MIN too
MustResetAlways(iv) == iv >= I_MIN

\* if (state->i > I_MIN)
MustReset(iv) == iv > I_MIN

\* int received_val = (int)packet_rx[offset];  one byte of the payload
RecvVal(b) == b % 256

SizeofInt == 4

\* variant: the payload length is not checked
AcceptedNoLen(f) ==
  CASE f.mode = "short" -> f.short = IEEE_BROADCAST
    [] f.mode = "long"  -> f.longff
    [] OTHER            -> FALSE

\* the destination checks of receive_frame, and the length check
Addressed(f) ==
  CASE f.mode = "short" -> f.short = IEEE_BROADCAST
    [] f.mode = "long"  -> f.longff
    [] OTHER            -> FALSE

Accepted(f) == Addressed(f) /\ ~(f.len < SizeofInt)

\* frames a neighbour may send: broadcast frames with every payload byte, and
\* one frame for each way of being rejected
Frames ==
  { [mode |-> m, short |-> IEEE_BROADCAST, longff |-> TRUE, len |-> SizeofInt, b |-> b] :
      m \in {"short", "long"}, b \in 0..MaxVal }
  \cup
  { [mode |-> "short", short |-> SRC_ADDR, longff |-> FALSE, len |-> SizeofInt, b |-> 1],
    [mode |-> "long", short |-> 0, longff |-> FALSE, len |-> SizeofInt, b |-> 1],
    [mode |-> "none", short |-> 0, longff |-> FALSE, len |-> SizeofInt, b |-> 1],
    [mode |-> "short", short |-> IEEE_BROADCAST, longff |-> FALSE, len |-> SizeofInt - 1, b |-> 1] }

\* ---- timers -------------------------------------------------------------
\* timer_in arms a single-shot timer and nothing in main.c cancels one.  An
\* entry of `timers` is the pair of timers one interval_start armed: the delays
\* it gave them and which of the two is still pending.
Armed(wait, iv) ==
  [wait |-> wait, len |-> iv, tp |-> TRUE, ip |-> TRUE, stale |-> FALSE]

RECURSIVE BagCount(_, _)
BagCount(bag, S) ==
  IF S = {} THEN 0
  ELSE LET x == CHOOSE y \in S : TRUE IN bag[x] + BagCount(bag, S \ {x})

\* The timers pending before an interval_start belong to an older interval.
\* Of their delays only the order matters from then on (see TDue, IDue), so
\* the pair keeps the order and forgets the lengths.
Older(x) ==
  [x EXCEPT !.stale = TRUE, !.len = 1,
            !.wait = IF x.wait < x.len THEN 0 ELSE IF x.wait = x.len THEN 1 ELSE 2]

Superseded(bag) ==
  LET S == BagToSet(bag)
  IN [y \in {Older(x) : x \in S} |-> BagCount(bag, {x \in S : Older(x) = y})]

\* variant: the two delays are given to the wrong timers
ArmSwapped(bag, wait, iv) == Superseded(bag) (+) SetToBag({Armed(iv, wait)})

\* variant: both calls of set_timer pass false, no interval-end timer is armed
ArmWaitOnly(bag, wait, iv) ==
  Superseded(bag) (+) SetToBag({[Armed(wait, iv) EXCEPT !.ip = FALSE]})

\* set_timer(state, state->t, false); set_timer(state, state->i, true);
Arm(bag, wait, iv) == Superseded(bag) (+) SetToBag({Armed(wait, iv)})

\* Two timers armed at the same moment fire in the order of their delays;
\* timers armed at different moments fire in any order.
TDue(tm) == tm.tp /\ (tm.ip => tm.wait <= tm.len)

IDue(tm) == tm.ip /\ (tm.tp => tm.len <= tm.wait)

\* one timer of the pair tm has fired and left the queue
Fired(bag, tm, kind) ==
  LET left == IF kind = "t" THEN [tm EXCEPT !.tp = FALSE] ELSE [tm EXCEPT !.ip = FALSE]
      rest == bag (-) SetToBag({tm})
  IN IF left.tp \/ left.ip THEN rest (+) SetToBag({left}) ELSE rest

NumIntervalTimers == BagCount(timers, {x \in BagToSet(timers) : x.ip})

\* interval-end timers pending or about to be armed
Threads == NumIntervalTimers + NumRng

\* ---- the payload between two nodes ----------------------------------------
\* variant: the int is laid out most significant byte first
EncodeIntBigEndian(v) ==
  [k \in 1..SizeofInt |-> (v \div 256^(SizeofInt - k)) % 256]

\* *((int*)packet) = payload;  the four bytes of the int, least significant
\* first (the Cortex-M targets of the userland are little-endian)
EncodeInt(v) == [k \in 1..SizeofInt |-> (v \div 256^(k - 1)) % 256]

\* (int)packet_rx[offset]: packet_rx is an array of plain char.  The
\* arm-none-eabi targets make it unsigned; sgn carries the signed reading
\* along, which costs the codec nothing.
DecodeChar(bytes, sgn) ==
  LET b == bytes[1] IN IF sgn /\ b >= 128 THEN b - 256 ELSE b

\* first payload bytes a neighbour outside the pair may send
ProbeBytes == {0, 1, 127, 128, 255}

\* sgn: plain char is signed in this build; s_val, r_val: state->val of the
\* sender and of the receiver after initialize_state; air: payload of the
\* frame in flight; sent, same: history, the value given to transmit and
\* whether the receiver held it when the frame arrived; received_val and
\* verdict: what receive_frame decoded and which function it called
CodecIdle ==
  [sgn |-> FALSE, s_val |-> 0, r_val |-> 0, air |-> <<>>, sent |-> 0,
   same |-> FALSE, received_val |-> 0, verdict |-> "none"]

\* ---- slip_send_packet (radio_rx_slip_tx/main.c) ----------------------------
\* plain char of the arm-none-eabi targets is unsigned
CharSigned == FALSE

\* the int that switch(*p) compares with the case labels
Promoted(b) == IF CharSigned /\ b >= 128 THEN b - 256 ELSE b

\* variant: the case ESC is missing
SlipEscapeEndOnly(b) ==
  IF Promoted(b) = END THEN <<ESC, ESC_END>> ELSE <<b>>

\* the body of switch(*p): the characters send_char is called with
SlipEscape(b) ==
  IF Promoted(b) = END THEN <<ESC, ESC_END>>
  ELSE IF Promoted(b) = ESC THEN <<ESC, ESC_ESC>>
  ELSE <<b>>

\* data bytes tried: the four special codes and one other
SlipBytes == {END, ESC, ESC_END, ESC_ESC, 65}

RECURSIVE SeqsOfLen(_)
SeqsOfLen(n) ==
  IF n = 0 THEN {<<>>}
  ELSE {Append(q, b) : q \in SeqsOfLen(n - 1), b \in SlipBytes}

Packets == UNION {SeqsOfLen(n) : n \in 0..MaxPacketLen}

\* ---- a network of nodes ----------------------------------------------------
Nodes == 1..NumNodes

\* One node of the network.  ph: "delay10" while main waits in
\* delay_ms(10*INIT_DELAY), "delay" once receive_frame is subscribed and main
\* waits in delay_ms(1000), "run" once initialize_state and interval_start
\* have run, "crashed" after a fault; i, t, c, val, I_MAX_VAL and timers as
\* in the node of Spec.
NetBoot ==
  [ph |-> "delay10", i |-> 0, t |-> 0, c |-> 0, val |-> 0, I_MAX_VAL |-> 0,
   timers |-> EmptyBag]

\* the network before any node has done anything; open: frames from outside
\* the network can still arrive
NetIdle == [open |-> FALSE, nodes |-> [n \in Nodes |-> NetBoot]]

\* interval_start on the record nd, the random source leaving r in the word
\* t (0 when it fails)
NetIntervalStart(nd, r) ==
  LET w == WaitPoint(r, nd.i)
  IN [nd EXCEPT !.c = 0, !.t = w, !.timers = Arm(nd.timers, w, nd.i)]

\* receive_frame on the record nd for an accepted frame whose first payload
\* byte decodes to rv.  c is only ever compared with K and is counted up to
\* MaxHeard.
NetReceive(nd, rv, r) ==
  IF nd.ph = "delay10" THEN nd
  ELSE IF nd.ph = "crashed" THEN nd
  ELSE IF nd.ph = "delay" THEN [nd EXCEPT !.ph = "crashed"]
  ELSE IF nd.val = rv THEN [nd EXCEPT !.c = Min(Incremented(nd.c), MaxHeard)]
  ELSE LET ad == [nd EXCEPT !.val = Adopt(nd.val, rv)]
       IN IF MustReset(nd.i)
          THEN NetIntervalStart([ad EXCEPT !.i = I_MIN], r)
          ELSE ad

\* the receiver has room for the timers a reset arms
NetRoom(nd, rv) ==
  (nd.ph = "run" /\ nd.val # rv /\ MustReset(nd.i)) =>
     BagCardinality(nd.timers) < MaxThreads

\* ---- construction --------------------------------------------------------
\* main has enabled the radio and waits in delay_ms(10*INIT_DELAY)
InitNode ==
  /\ stack = <<Frame("delay10", "main")>>
  /\ subscribed = FALSE
  /\ global_state = "NULL"
  /\ i = 0 /\ t = 0 /\ c = 0 /\ val = 0
  /\ I_MAX_VAL = 0
  /\ START_TEST = TRUE
  /\ packet = 0
  /\ timers = EmptyBag
  /\ crashed = FALSE
  /\ started = FALSE
  /\ heard = 0 /\ txCount = 0
  /\ ev = NoEv

Init == InitNode /\ codec = Off /\ slip = Off /\ net = Off

\* variant: interval_start does not clear the counter
IntervalStartKeepsCount(base, ret) ==
  /\ UNCHANGED <<c, heard>>
  /\ stack' = Append(base, Frame("rng", ret))

\* ---- interval_start up to its wait in rng_sync ---------------------------
\* state->c = 0; uint32_t t = 0; rng_sync(...)
IntervalStartEnter(base, ret) ==
  /\ c' = 0
  /\ heard' = 0
  /\ stack' = Append(base, Frame("rng", ret))

\* ---- inconsistent_transmission up to its first wait or its return ---------
\* base is the stack the call runs on, ret names the caller that continues
InconsistentTransmission(base, rv, ret) ==
  /\ val' = Adopt(val, rv)
  /\ IF MustReset(i)
     THEN /\ i' = I_MIN
          /\ IntervalStartEnter(base, ret)
     ELSE /\ stack' = base
          /\ UNCHANGED <<i, c, heard>>

\* ---- main ------------------------------------------------------------------
\* delay_ms(10*INIT_DELAY) returns; ieee802154_receive(receive_frame, ...);
\* gpio_set(0); delay_ms(1000) waits
MainSubscribe ==
  /\ InYield
  /\ UNCHANGED others
  /\ Len(stack) > 0 /\ Top.at = "delay10"
  /\ stack' = Append(Pop, Frame("delay", "main"))
  /\ subscribed' = TRUE
  /\ ev' = Ev("subscribe")
  /\ UNCHANGED <<global_state, i, t, c, val, I_MAX_VAL, START_TEST, packet,
                 timers, crashed, started, heard, txCount>>

\* delay_ms(1000) returns; malloc; initialize_state(state); interval_start(state)
\* as far as its wait in rng_sync
MainStart ==
  /\ InYield
  /\ UNCHANGED others
  /\ Len(stack) > 0 /\ Top.at = "delay"
  /\ i' = I_MIN
  /\ t' = 0
  /\ val' = 0
  /\ I_MAX_VAL' = DoubleTimes(I_MIN, I_MAX)
  /\ global_state' = "state"
  /\ IntervalStartEnter(Pop, "main")
  /\ ev' = Ev("init")
  /\ UNCHANGED <<subscribed, START_TEST, packet, timers, crashed, started,
                 txCount>>

\* ---- rng_sync returns: the rest of interval_start, then of its caller ------
RngDone ==
  /\ InYield
  /\ UNCHANGED others
  /\ Len(stack) > 0 /\ Top.at = "rng"
  /\ \E r \in RandSet, ok \in BOOLEAN :
       LET word == IF ok THEN r ELSE 0 IN
       /\ t' = WaitPoint(word, i)
       /\ timers' = Arm(timers, WaitPoint(word, i), i)
       /\ ev' = [Ev("rngdone") EXCEPT !.fail = ~ok]
  /\ txCount' = 0
  /\ IF Top.ret = "test"
     THEN \* back in interval_end: START_TEST = false; ...; interval_start(state)
          /\ START_TEST' = FALSE
          /\ IntervalStartEnter(Pop, "end")
          /\ UNCHANGED started
     ELSE /\ stack' = Pop
          /\ started' = TRUE
          /\ UNCHANGED <<START_TEST, c, heard>>
  /\ UNCHANGED <<subscribed, global_state, i, val, I_MAX_VAL, packet, crashed>>

\* variant: a failed transmission clears the counter
SendDoneClearsCount ==
  /\ InYield
  /\ UNCHANGED others
  /\ Len(stack) > 0 /\ Top.at = "send"
  /\ stack' = Pop
  /\ \E ok \in BOOLEAN :
       /\ ev' = [Ev("senddone") EXCEPT !.fail = ~ok]
       /\ c' = IF ok THEN c ELSE 0
  /\ UNCHANGED <<subscribed, global_state, i, t, val, I_MAX_VAL, START_TEST,
                 packet, timers, crashed, started, heard, txCount>>

\* ---- ieee802154_send returns: the rest of transmit only prints ------------
SendDone ==
  /\ InYield
  /\ UNCHANGED others
  /\ Len(stack) > 0 /\ Top.at = "send"
  /\ stack' = Pop
  /\ \E ok \in BOOLEAN : ev' = [Ev("senddone") EXCEPT !.fail = ~ok]
  /\ UNCHANGED <<prog, timers, crashed, started, heard, txCount>>

\* ---- t_timer_fired -> interval_t -> transmit --------------------------------
TFire ==
  /\ InYield
  /\ UNCHANGED others
  /\ \E tm \in BagToSet(timers) :
       /\ TDue(tm)
       /\ ShouldTransmit(c) => Room
       /\ timers' = Fired(timers, tm, "t")
       /\ ev' = [Ev("tfire") EXCEPT !.stale = tm.stale, !.tx = ShouldTransmit(c),
                                    !.wait = tm.wait]
  /\ IF ShouldTransmit(c)
     THEN \* *((int*)packet) = payload; ieee802154_send(0xFFFF, ...)
          /\ packet' = val
          /\ stack' = Append(stack, Frame("send", "t"))
          /\ txCount' = txCount + 1
     ELSE UNCHANGED <<packet, stack, txCount>>
  /\ UNCHANGED <<subscribed, global_state, i, t, c, val, I_MAX_VAL, START_TEST,
                 crashed, started, heard>>

\* ---- interval_timer_fired -> interval_end -----------------------------------
IFire ==
  /\ InYield
  /\ UNCHANGED others
  /\ Room
  /\ \E tm \in BagToSet(timers) :
       /\ IDue(tm)
       /\ timers' = Fired(timers, tm, "i")
       /\ ev' = [Ev("ifire") EXCEPT !.stale = tm.stale, !.restart = TRUE,
                                    !.wait = tm.len]
  /\ IF 2 * i > I_MAX_VAL /\ START_TEST /\ SRC_ADDR = 5376
     THEN \* state->i = I_MAX_VAL; inconsistent_transmission(state, state->val + 1)
          IF MustReset(I_MAX_VAL)
          THEN /\ val' = Adopt(val, val + 1)
               /\ i' = I_MIN
               /\ IntervalStartEnter(stack, "test")
               /\ UNCHANGED START_TEST
          ELSE /\ val' = Adopt(val, val + 1)
               /\ i' = I_MAX_VAL
               /\ START_TEST' = FALSE
               /\ IntervalStartEnter(stack, "end")
     ELSE /\ i' = NextInterval(i, I_MAX_VAL)
          /\ IntervalStartEnter(stack, "end")
          /\ UNCHANGED <<val, START_TEST>>
  /\ UNCHANGED <<subscribed, global_state, t, I_MAX_VAL, packet, crashed,
                 started, txCount>>

\* ---- receive_frame ----------------------------------------------------------
ReceiveFrame(f) ==
  LET rv == RecvVal(f.b) IN
  /\ IF ~Accepted(f)
     THEN \* not for us, no address, or payload too short
          /\ ev' = [Ev("rx") EXCEPT !.rv = rv]
          /\ UNCHANGED <<stack, i, c, val, crashed, heard>>
     ELSE IF global_state = "NULL"
     THEN \* global_state->val with global_state == NULL
          /\ crashed' = TRUE
          /\ ev' = [Ev("rx") EXCEPT !.rv = rv, !.core = TRUE]
          /\ UNCHANGED <<stack, i, c, val, heard>>
     ELSE IF val = rv
     THEN \* consistent_transmission
          /\ c < MaxHeard
          /\ c' = Incremented(c)
          /\ heard' = heard + 1
          /\ ev' = [Ev("rx") EXCEPT !.rv = rv, !.core = TRUE]
          /\ UNCHANGED <<stack, i, val, crashed>>
     ELSE \* inconsistent_transmission
          /\ MustReset(i) => (Room /\ Threads < MaxThreads)
          /\ InconsistentTransmission(stack, rv, "incons")
          /\ ev' = [Ev("rx") EXCEPT !.rv = rv, !.core = TRUE,
                                    !.restart = MustReset(i)]
          /\ UNCHANGED crashed
  /\ UNCHANGED <<subscribed, global_state, t, I_MAX_VAL, START_TEST, packet,
                 timers, started, txCount>>

\* the kernel delivers a frame to the subscribed callback
Receive ==
  /\ InYield
  /\ subscribed
  /\ UNCHANGED others
  /\ \E f \in Frames : ReceiveFrame(f)

Next == MainSubscribe \/ MainStart \/ RngDone \/ SendDone \/ TFire \/ IFire \/ Receive

Spec == Init /\ [][Next]_vars

\* the same node with a silent channel
NextNoRx == MainSubscribe \/ MainStart \/ RngDone \/ SendDone \/ TFire \/ IFire

SpecNoRx == Init /\ [][NextNoRx]_vars

\* Every driver call returns and the kernel delivers every expired timer to a
\* process that yields.
SpecFair ==
  /\ Spec
  /\ WF_vars(RngDone) /\ WF_vars(SendDone)
  /\ WF_vars(TFire) /\ WF_vars(IFire)

\* ---- a sender and a receiver --------------------------------------------
\* Both nodes have run initialize_state (val = 0); the build fixes the
\* signedness of char.
InitCodec ==
  /\ InitNode
  /\ \E sg \in BOOLEAN : codec = [CodecIdle EXCEPT !.sgn = sg]
  /\ slip = Off /\ net = Off

\* receive_frame of either node on a broadcast frame from outside the pair:
\* decode, compare, adopt (consistent_transmission touches only c)
CodecHear ==
  /\ \E b \in ProbeBytes, who \in {"s", "r"} :
       LET rv == DecodeChar(<<b, 0, 0, 0>>, codec.sgn) IN
       codec' = IF who = "s"
                THEN [codec EXCEPT !.s_val = Adopt(codec.s_val, rv)]
                ELSE [codec EXCEPT !.r_val = Adopt(codec.r_val, rv)]
  /\ UNCHANGED <<node, slip, net>>

\* transmit(state->val) of the sender; the frame is on its way
CodecTransmit ==
  /\ codec.air = <<>>
  /\ codec' = [codec EXCEPT !.air = EncodeInt(codec.s_val), !.sent = codec.s_val,
                            !.verdict = "none"]
  /\ UNCHANGED <<node, slip, net>>

\* receive_frame of the receiver on the sender's frame
CodecReceive ==
  /\ codec.air # <<>>
  /\ ~(Len(codec.air) < SizeofInt)
  /\ LET rv == DecodeChar(codec.air, codec.sgn) IN
     codec' = [codec EXCEPT
                 !.air = <<>>,
                 !.received_val = rv,
                 !.same = (codec.r_val = codec.sent),
                 !.verdict = IF codec.r_val = rv THEN "consistent" ELSE "inconsistent",
                 !.r_val = IF codec.r_val = rv THEN codec.r_val
                           ELSE Adopt(codec.r_val, rv)]
  /\ UNCHANGED <<node, slip, net>>

NextCodec == CodecHear \/ CodecTransmit \/ CodecReceive

SpecCodec == InitCodec /\ [][NextCodec]_vars

\* ---- one call of slip_send_packet -------------------------------------
\* callback calls slip_send_packet(p, len) with a buffer of len bytes.
\* pc: where the call is; p: the bytes from the pointer p on; len: the
\* parameter len; out: the characters given to send_char; orig: history, the
\* packet the call was given
InitSlip ==
  /\ InitNode
  /\ codec = Off /\ net = Off
  /\ \E q \in Packets :
       slip = [pc |-> "call", p |-> q, len |-> Len(q), out |-> <<>>, orig |-> q]

\* send_char(END);
SlipBegin ==
  /\ slip.pc = "call"
  /\ slip' = [slip EXCEPT !.pc = "loop", !.out = Append(slip.out, END)]
  /\ UNCHANGED <<node, codec, net>>

\* while(len--) { switch(*p) ...; p++; }
SlipByte ==
  /\ slip.pc = "loop"
  /\ slip.len # 0
  /\ slip' = [slip EXCEPT !.len = slip.len - 1,
                          !.out = slip.out \o SlipEscape(Head(slip.p)),
                          !.p = Tail(slip.p)]
  /\ UNCHANGED <<node, codec, net>>

\* the loop ends; send_char(END);
SlipFinish ==
  /\ slip.pc = "loop"
  /\ slip.len = 0
  /\ slip' = [slip EXCEPT !.pc = "done", !.len = -1,
                          !.out = Append(slip.out, END)]
  /\ UNCHANGED <<node, codec, net>>

NextSlip == SlipBegin \/ SlipByte \/ SlipFinish

SpecSlip == InitSlip /\ [][NextSlip]_vars

\* ---- the network ------------------------------------------------------------
\* Every node starts in main.  In the network a callback is one step: the
\* waits inside rng_sync and ieee802154_send, which Spec interleaves, are not.
\* A transmission reaches every other node at once.
InitNet ==
  /\ InitNode
  /\ codec = Off /\ slip = Off
  /\ net = [NetIdle EXCEPT !.open = TRUE]

\* delay_ms(10*INIT_DELAY) returns; ieee802154_receive(receive_frame, ...)
NetSubscribe(n) ==
  /\ net.nodes[n].ph = "delay10"
  /\ net' = [net EXCEPT !.nodes[n].ph = "delay"]
  /\ UNCHANGED <<node, codec, slip>>

\* delay_ms(1000) returns; initialize_state(state); interval_start(state)
NetStart(n) ==
  /\ net.nodes[n].ph = "delay"
  /\ \E r \in RandSet :
       net' = [net EXCEPT !.nodes[n] =
                 NetIntervalStart([@ EXCEPT !.ph = "run", !.i = I_MIN, !.t = 0,
                                            !.c = 0, !.val = 0,
                                            !.I_MAX_VAL = DoubleTimes(I_MIN, I_MAX)],
                                  r)]
  /\ UNCHANGED <<node, codec, slip>>

\* t_timer_fired -> interval_t -> transmit; the frame is received by every
\* other node
NetTFire(n) ==
  /\ net.nodes[n].ph = "run"
  /\ \E tm \in BagToSet(net.nodes[n].timers), rr \in [Nodes \ {n} -> RandSet] :
       LET me == net.nodes[n]
           rv == DecodeChar(EncodeInt(me.val), CharSigned)
       IN /\ TDue(tm)
          /\ ShouldTransmit(me.c) => \A m \in Nodes \ {n} : NetRoom(net.nodes[m], rv)
          /\ net' = [net EXCEPT !.nodes =
                       [m \in Nodes |->
                          IF m = n
                          THEN [me EXCEPT !.timers = Fired(me.timers, tm, "t")]
                          ELSE IF ShouldTransmit(me.c)
                          THEN NetReceive(net.nodes[m], rv, rr[m])
                          ELSE net.nodes[m]]]
  /\ UNCHANGED <<node, codec, slip>>

\* interval_timer_fired -> interval_end -> interval_start
NetIFire(n) ==
  /\ net.nodes[n].ph = "run"
  /\ \E tm \in BagToSet(net.nodes[n].timers), r \in RandSet :
       LET me == net.nodes[n] IN
       /\ IDue(tm)
       /\ net' = [net EXCEPT !.nodes[n] =
                    NetIntervalStart([me EXCEPT !.i = NextInterval(me.i, me.I_MAX_VAL),
                                                !.timers = Fired(me.timers, tm, "i")],
                                     r)]
  /\ UNCHANGED <<node, codec, slip>>

\* a broadcast frame from outside the network reaches the running node n,
\* which may so come to hold a value of its own before the network closes
NetHearOutside(n) ==
  /\ net.open
  /\ net.nodes[n].ph = "run"
  /\ \E b \in 0..MaxVal, r \in RandSet :
       /\ NetRoom(net.nodes[n], RecvVal(b))
       /\ net' = [net EXCEPT !.nodes[n] = NetReceive(@, RecvVal(b), r)]
  /\ UNCHANGED <<node, codec, slip>>

\* from now on the nodes hear only each other
NetClose ==
  /\ net.open
  /\ net' = [net EXCEPT !.open = FALSE]
  /\ UNCHANGED <<node, codec, slip>>

NextNet ==
  \/ \E n \in Nodes : NetSubscribe(n)
  \/ \E n \in Nodes : NetStart(n)
  \/ \E n \in Nodes : NetTFire(n)
  \/ \E n \in Nodes : NetIFire(n)
  \/ \E n \in Nodes : NetHearOutside(n)
  \/ NetClose

\* every delay_ms returns and every expired timer of a running node is
\* delivered
SpecNet ==
  /\ InitNet /\ [][NextNet]_vars
  /\ \A n \in Nodes :
       /\ WF_vars(NetSubscribe(n)) /\ WF_vars(NetStart(n))
       /\ WF_vars(NetTFire(n)) /\ WF_vars(NetIFire(n))

\* ==== properties ============================================================
TimerFired == ev.kind \in {"tfire", "ifire"}

InRange(w, iv) == iv \div 2 <= w /\ w < iv

\* C1: a timer armed by an interval that a later interval_start has superseded
\* does nothing when it fires: it does not transmit, it does not change
\* current_interval and it does not start an interval.
C1_StaleTimerIsNoOp ==
  (TimerFired /\ ev.stale) => (~ev.tx /\ i = ev.oldi /\ ~ev.restart)

\* C2: once initialize_state has run, I_MIN <= i <= I_MAX_VAL, and I_MAX_VAL is
\* I_MIN doubled I_MAX times.
C2_IntervalInRange ==
  global_state = "state" =>
    /\ I_MAX_VAL = I_MIN * 2^I_MAX
    /\ I_MIN <= i
    /\ i <= I_MAX_VAL

\* an interval at the largest length ended and the next one is as long
C2_Witness ==
  ev.kind = "ifire" /\ ev.oldi = I_MIN * 2^I_MAX /\ i = I_MIN * 2^I_MAX

C4_TransmitIffBelowK ==
  ev.kind = "tfire" =>
    /\ ev.tx <=> c < K
    /\ ev.tx <=> heard < K
    /\ ev.tx => (Len(stack) > 0 /\ Top.at = "send" /\ packet = val)

\* K consistent values were heard and the wait-point timer fired silently
C4_Witness ==
  ev.kind = "tfire" /\ ~ev.stale /\ heard = K /\ ~ev.tx

\* C5: after an inconsistent reception with i > I_MIN no timer fires until the
\* interval_start of the reset has armed the new timers.
C5_ResetBeforeOldTimers ==
  TimerFired => \A k \in 1..Len(stack) : stack[k].ret # "incons"

\* C6: a reception that reaches the state machine leaves val = max(old val,
\* received value); val never decreases; and after an inconsistent reception
\* current_interval is I_MIN.
C6_AdoptionMonotonic ==
  /\ val >= ev.oldval
  /\ (ev.kind = "rx" /\ ev.core /\ ~crashed) =>
       /\ val = Max(ev.oldval, ev.rv)
       /\ ev.rv # ev.oldval => i = I_MIN

\* a smaller value arrived in a long interval: kept the value, reset the interval
C6_Witness ==
  /\ ev.kind = "rx" /\ ev.core
  /\ ev.rv < ev.oldval /\ val = ev.oldval
  /\ ev.oldi > I_MIN /\ i = I_MIN

\* C7: no timer or receive callback is entered while another callback is
\* still in progress.
C7_CallbacksRunToCompletion ==
  ev.kind \in {"tfire", "ifire", "rx"} => ~ev.inprog

\* C8: receive_frame reads the trickle state only after initialize_state and
\* the first interval_start have returned.
C8_NoReceiveBeforeStart ==
  (ev.kind = "rx" /\ ev.core) => started

\* C9: on a silent channel every wait-point timer transmits, it fires at the
\* wait point t of its interval with i/2 <= t < i, and every interval that ends
\* has seen exactly one transmission.
C9_OncePerInterval ==
  /\ txCount <= 1
  /\ ev.kind = "ifire" => txCount = 1
  /\ ev.kind = "tfire" => (ev.tx /\ ~ev.stale /\ ev.wait = t /\ InRange(ev.wait, i))

\* an interval of the largest length ended after exactly one transmission
C9_Witness ==
  ev.kind = "ifire" /\ ev.oldi = I_MIN * 2^I_MAX /\ txCount = 1

\* C10: on a silent channel the interval that ends had length i, the next one has
\* length min(2*i, I_MAX_VAL), interval_start is called for it and arms timers
\* of that length, and nothing else changes i.
C10_Doubling ==
  /\ ev.kind = "ifire" =>
       /\ ev.wait = ev.oldi
       /\ i = Min(2 * ev.oldi, I_MIN * 2^I_MAX)
       /\ Len(stack) > 0 /\ Top = Frame("rng", "end")
       /\ c = 0
  /\ ev.kind = "rngdone" => Armed(t, i) \in BagToSet(timers)
  /\ ev.kind \in {"rngdone", "senddone", "tfire"} => i = ev.oldi

\* the doubling was cut at the largest length
C10_Witness ==
  ev.kind = "ifire" /\ 2 * ev.oldi > I_MIN * 2^I_MAX /\ i = I_MIN * 2^I_MAX

\* the armed timers and the calls in progress
sched == <<timers, stack>>

\* the last step was a reception that reached the state machine
CoreRx == ev.kind = "rx" /\ ev.core /\ ~crashed

\* C11: a reception of a value equal to val adds exactly one to c and leaves
\* val, i, t, the armed timers and the calls in progress as they were, so no
\* interval is started; a second one in the same interval adds one again.
C11_ConsistentOnlyCounts ==
  [][(CoreRx' /\ ev'.rv = ev'.oldval) =>
       (c' = c + 1 /\ heard' = heard + 1 /\ UNCHANGED <<val, i, t, sched>>)]_vars

\* the same value was received twice in one interval
C11_Witness ==
  CoreRx /\ ev.rv = ev.oldval /\ c = 2 /\ heard = 2

\* the pair of timers the latest interval_start armed still has its
\* interval-end timer
CurrentIntervalEndPending == \E tm \in BagToSet(timers) : ~tm.stale /\ tm.ip

RngFailed == ev.kind = "rngdone" /\ ev.fail

\* the step called interval_start
StartsInterval == ev.restart \/ ev.kind = "init"

\* C13: when rng_sync fails, interval_start still finishes: t becomes the
\* midpoint i/2, one wait-point timer of delay i/2 and one interval-end timer
\* of delay i are armed, i and val stay, and c, set to 0 when interval_start was
\* entered, is not touched by the failure.
C13_RngFailureStillStarts ==
  [][/\ RngFailed' =>
          /\ t' = i \div 2
          /\ Armed(i \div 2, i) \in BagToSet(timers')
          /\ BagCardinality(timers') = BagCardinality(timers) + 1
          /\ UNCHANGED <<i, val, c>>
     /\ StartsInterval' => (c' = 0 /\ Top'.at = "rng")]_vars

\* the random source failed in an interval longer than I_MIN
C13_Witness ==
  RngFailed /\ i > I_MIN /\ t = i \div 2 /\ c = 0 /\ Armed(t, i) \in BagToSet(timers)

\* the step is the return of ieee802154_send into transmit
SendReturned == ev.kind = "senddone"

\* C14: when ieee802154_send returns, with an error or without, val, i, c, t
\* and the armed timers are what they were, transmit returns to its caller,
\* and the interval-end timer of the current interval is still armed (or an
\* interval_start is waiting to arm the next one).
C14_FailedSendChangesNothing ==
  [][SendReturned' =>
       /\ UNCHANGED <<val, i, c, t, timers>>
       /\ stack' = Pop
       /\ (CurrentIntervalEndPending' \/ RngWaiting')]_vars

\* a transmission failed after a consistent reception in a grown interval
C14_Witness ==
  SendReturned /\ ev.fail /\ i > I_MIN /\ c >= 1 /\ CurrentIntervalEndPending

\* C15: of the two timers one interval_start armed, the interval-end timer
\* never fires while the wait-point timer is still pending: no pair is left
\* with only its wait-point timer.
C15_WaitPointFirst ==
  \A tm \in BagToSet(timers) : tm.tp => tm.ip

\* the interval-end timer of a grown interval fired and nothing of its pair,
\* nor of any other, is pending, so its wait-point timer fired before it
C15_Witness ==
  ev.kind = "ifire" /\ ~ev.stale /\ ev.wait > I_MIN /\ timers = EmptyBag

\* timers of the pair tm that have not fired
PendingOf(tm) == (IF tm.tp THEN 1 ELSE 0) + (IF tm.ip THEN 1 ELSE 0)

RECURSIVE SumPending(_, _)
SumPending(bag, S) ==
  IF S = {} THEN 0
  ELSE LET x == CHOOSE y \in S : TRUE
       IN bag[x] * PendingOf(x) + SumPending(bag, S \ {x})

\* all timers that are armed and have not fired
NumPending == SumPending(timers, BagToSet(timers))

\* the step is the return of rng_sync into interval_start
TimersArmed == ev.kind = "rngdone"

\* C16: every call of interval_start sets c to 0 and goes on to rng_sync;
\* when that returns, exactly two timers are added, a wait-point timer of
\* delay t and an interval-end timer of delay i, both pending; a timer that
\* fires leaves the queue, so none fires twice, and no other step adds or
\* removes a timer.
C16_StartArmsTwoTimers ==
  [][/\ StartsInterval' => (c' = 0 /\ Top'.at = "rng" /\ NumPending' <= NumPending)
     /\ TimersArmed' =>
          /\ NumPending' = NumPending + 2
          /\ timers'[Armed(t', i')] >= 1
          /\ InRange(t', i') /\ i' = i
     /\ TimerFired' => NumPending' = NumPending - 1
     /\ ~(TimersArmed' \/ TimerFired') => NumPending' = NumPending]_vars

\* an interval was started by an inconsistent reception while the timers of
\* the interval before were pending, and its own two timers are armed
C16_Witness ==
  /\ TimersArmed /\ i = I_MIN /\ c = 0
  /\ NumPending = 4
  /\ Armed(t, i) \in BagToSet(timers)

\* receive_frame decoded a value different from val while i was I_MIN
InconsistentAtMin == CoreRx /\ ev.rv # ev.oldval /\ ev.oldi = I_MIN

\* C17: a reception of a value different from val while i = I_MIN changes at
\* most val, which becomes the larger of the two; i, c, t, the armed timers
\* and the calls in progress stay, and interval_start is not called.
C17_NoResetAtMin ==
  [][InconsistentAtMin' =>
       /\ val' = Max(val, ev'.rv)
       /\ UNCHANGED <<i, c, t, sched>>
       /\ ~ev'.restart]_vars

\* a larger value was adopted at i = I_MIN after a consistent reception, with
\* both timers of the interval pending
C17_Witness ==
  /\ InconsistentAtMin /\ val = ev.rv /\ c >= 1
  /\ Armed(t, I_MIN) \in BagToSet(timers)

\* frames the claim lists: a short destination other than 0xffff, a long
\* destination that is not all 0xff, no destination, a payload shorter than
\* an int
NotBroadcastShort(f) == f.mode = "short" /\ f.short # 65535
NotBroadcastLong(f) == f.mode = "long" /\ ~f.longff
NoDestination(f) == f.mode \notin {"short", "long"}
ShortPayload(f) == f.len < 4

Unwanted(f) ==
  NotBroadcastShort(f) \/ NotBroadcastLong(f) \/ NoDestination(f) \/ ShortPayload(f)

UnwantedFrames == {f \in Frames : Unwanted(f)}

\* the frames a neighbour may send include one of each kind
EveryKindSent ==
  /\ \E f \in Frames : NotBroadcastShort(f)
  /\ \E f \in Frames : NotBroadcastLong(f)
  /\ \E f \in Frames : NoDestination(f)
  /\ \E f \in Frames : ShortPayload(f) /\ f.mode = "short" /\ f.short = 65535

\* C18: the delivery of a frame that is not a broadcast, or whose payload is
\* shorter than an int, returns from receive_frame before the trickle state is
\* read: val, i, c, t, the armed timers and the calls in progress stay, and
\* the process goes on.
C18_UnwantedFrameIgnored ==
  [][ev'.kind = "rx" =>
       /\ EveryKindSent
       /\ \A f \in UnwantedFrames :
            (InYield /\ subscribed /\ ReceiveFrame(f)) =>
              (~ev'.core /\ UNCHANGED <<val, i, c, t, sched, crashed>>)]_vars

\* an unwanted frame arrived in a grown interval after a consistent reception,
\* with timers pending, and was dropped
C18_Witness ==
  /\ ev.kind = "rx" /\ ~ev.core /\ ~crashed
  /\ i > I_MIN /\ c >= 1 /\ timers # EmptyBag

\* the step ran initialize_state
Initialized == ev.kind = "init"

\* C19: after initialize_state i = I_MIN, t = 0, c = 0, val = 0, I_MAX_VAL is
\* I_MIN doubled I_MAX times and global_state points to the state; no timer
\* is armed by it, and none is armed before an interval_start has reached
\* its set_timer calls.
C19_InitializeState ==
  /\ Initialized =>
       /\ i = I_MIN /\ t = 0 /\ c = 0 /\ val = 0
       /\ I_MAX_VAL = I_MIN * 2^I_MAX
       /\ global_state = "state"
       /\ timers = EmptyBag
  /\ ~started => timers = EmptyBag
  /\ global_state = "NULL" => (I_MAX_VAL = 0 /\ i = 0 /\ ~RngWaiting)

\* initialize_state has run and main waits in the rng_sync of interval_start
C19_Witness ==
  /\ Initialized /\ I_MAX_VAL = 256 * I_MIN /\ i = I_MIN
  /\ timers = EmptyBag /\ Top.at = "rng" /\ ~started

\* C20: whatever is received, between two consecutive calls of interval_start
\* at most one wait-point firing transmits: when no interval_start is in
\* progress, at most one transmission has been made since the timers were
\* last armed.
C20_OneTransmissionPerInterval ==
  ~RngWaiting => txCount <= 1

\* the receiver has decoded the sender's frame
Decoded == codec.verdict # "none"

\* C21: whatever value a node has come to hold, the value receive_frame
\* decodes from a frame is the value the sender gave to transmit, and a
\* receiver holding that same value calls consistent_transmission.
C21_DecodeIsTransmitted ==
  Decoded =>
    /\ codec.received_val = codec.sent
    /\ codec.same => codec.verdict = "consistent"

\* the largest value a node can hold went from a sender to a receiver that
\* held it too
C21_Witness ==
  /\ Decoded /\ codec.sent = 255 /\ codec.received_val = 255
  /\ codec.same /\ codec.verdict = "consistent"

\* what RFC 1055 prescribes for one data byte
Rfc1055(b) ==
  IF b = 192 THEN <<219, 220>> ELSE IF b = 219 THEN <<219, 221>> ELSE <<b>>

RECURSIVE Rfc1055All(_)
Rfc1055All(q) ==
  IF q = <<>> THEN <<>> ELSE Rfc1055(Head(q)) \o Rfc1055All(Tail(q))

\* the receiver of RFC 1055 on the characters between two END
RECURSIVE SlipUnescape(_)
SlipUnescape(q) ==
  IF q = <<>> THEN <<>>
  ELSE IF q[1] = 219 /\ Len(q) >= 2
  THEN <<(IF q[2] = 220 THEN 192 ELSE IF q[2] = 221 THEN 219 ELSE q[2])>>
         \o SlipUnescape(SubSeq(q, 3, Len(q)))
  ELSE <<q[1]>> \o SlipUnescape(Tail(q))

\* the characters sent between the first and the last
SlipBody == SubSeq(slip.out, 2, Len(slip.out) - 1)

SlipDone == slip.pc = "done"

\* C23: when slip_send_packet returns, the characters sent are END, then for
\* each data byte in order ESC ESC_END for END, ESC ESC_ESC for ESC and the
\* byte itself otherwise, then END; no END lies between the two delimiters,
\* and the RFC 1055 receiver gets the packet back.
C23_SlipFraming ==
  SlipDone =>
    /\ Len(slip.out) >= 2
    /\ slip.out[1] = 192 /\ slip.out[Len(slip.out)] = 192
    /\ SlipBody = Rfc1055All(slip.orig)
    /\ \A k \in 1..Len(SlipBody) : SlipBody[k] # 192
    /\ SlipUnescape(SlipBody) = slip.orig

\* a packet holding END, ESC and an ordinary byte was framed
C23_Witness ==
  /\ SlipDone
  /\ slip.orig = <<192, 219, 65>>
  /\ slip.out = <<192, 219, 220, 219, 221, 65, 192>>

\* the largest value held in the network; once the network has closed the
\* nodes adopt only values held in it, so it is the largest value held when
\* it closed
NetMax ==
  CHOOSE v \in {net.nodes[n].val : n \in Nodes} :
    \A m \in Nodes : net.nodes[m].val <= v

\* node n runs the algorithm and holds v
NetHolds(n, v) == net.nodes[n].ph = "run" /\ net.nodes[n].val = v

\* C22: in a network whose nodes hear only each other, with every timer
\* delivered and every transmission received by every other node, from some
\* moment on every node holds the largest value held in the network.
C22_NetworkConverges ==
  <>[](~net.open => \A n \in Nodes : NetHolds(n, NetMax))
====
